---- MODULE Spec2Model ----
(***************************************************************************)
(* Model of the dashboard's RAG orchestration (Dashboard/app.py and        *)
(* Dashboard/rag_setup.py): the one-time construction of rag_chain at      *)
(* module import, the update_response callback (the "answer" boundary)     *)
(* and the download_pdf callback, together with the Dash component         *)
(* properties the callbacks read and write.                                *)
(*                                                                         *)
(* Python values are modelled as strings: None and dash.no_update are the  *)
(* sentinels below, html.P(...) is its rendered markup, and an exception   *)
(* is the name of its class (startup) or its str() (query).                *)
(***************************************************************************)
EXTENDS Integers, Sequences, FiniteSets, TLC

\* ---------------------------------------------------------------- bounds
\* Number of update_response invocations the server may have in flight.
MaxCalls == 2
\* Cap on the download button's n_clicks counter.
MaxClicks == 2

Calls == 1..MaxCalls

\* ------------------------------------------------------- Python sentinels
None == "<None>"
no_update == "<no_update>"
\* rag_chain before the module-level try block has bound it.
Unbound == "<unbound>"
\* The RetrievalQA object returned by create_rag_chain.
qa_chain == "<RetrievalQA>"

\* ------------------------------------------------------------ input sets
\* Values the user can put in question-input.
Questions == {"", "What is the total revenue?", "How did North America perform?"}
\* response['result'] values the chain can produce.
Answers == {"", "Revenue grew 20% in North America"}
\* str(e) of exceptions rag_chain.invoke can raise (embedding or generation).
QueryErrors == {"EmbeddingServiceUnavailable"}

NoReply == [kind |-> "none", val |-> ""]
BackendReplies ==
    [kind : {"result"}, val : Answers] \cup [kind : {"raise"}, val : QueryErrors]

\* Python truthiness of an optional string (None and "" are falsy).
Truthy(s) == s # None /\ s # ""

\* ------------------------------------------------------ exception classes
\* isinstance(e, cls) for the classes the startup code can meet.
IsInstance(e, cls) ==
    \/ e = cls
    \/ e = "ModuleNotFoundError" /\ cls = "ImportError"

\* ------------------------------------------------------------- rendering
\* html.P(text)
P(text) == "<p>" \o text \o "</p>"
\* html.P(text, style={'color': 'red'})
RedP(text) == "<p style='color:red'>" \o text \o "</p>"

VARIABLES
    docExists,      \* external_doc.pdf is present in the project directory
    moduleExists,   \* rag_setup.py (and its imports) can be imported
    startup,        \* position of the module-level code of app.py
    rag_chain,      \* module global rag_chain
    question_input, \* question-input.value
    rag_response,   \* rag-response.children
    response_store, \* rag-response-store.data
    download,       \* download-pdf.data
    n_clicks,       \* download-button.n_clicks
    cpc,            \* per invocation of update_response: where it is
    cq,             \* per invocation: the question it was called with
    creply,         \* per invocation: the chain's reply to its invoke
    returned,       \* the outputs of the latest update_response return
    lastSubmit      \* history: text stored by the latest submit that produced one

vars == <<docExists, moduleExists, startup, rag_chain, question_input,
          rag_response, response_store, download, n_clicks, cpc, cq, creply,
          returned, lastSubmit>>

env == <<docExists, moduleExists>>
browser == <<question_input, rag_response, response_store, download, n_clicks,
             returned, lastSubmit>>
calls == <<cpc, cq, creply>>

NoDownload == [filename |-> None, content |-> <<>>]
NoReturn == [children |-> None, data |-> None, value |-> None]

Init ==
    /\ docExists \in BOOLEAN
    /\ moduleExists \in BOOLEAN
    /\ startup = "import"
    /\ rag_chain = Unbound
    /\ question_input = None
    /\ rag_response = "Enter a question and click 'Submit'."
    /\ response_store = None
    /\ download = NoDownload
    /\ n_clicks = 0
    /\ cpc = [c \in Calls |-> "idle"]
    /\ cq = [c \in Calls |-> None]
    /\ creply = [c \in Calls |-> NoReply]
    /\ returned = NoReturn
    /\ lastSubmit = None

\* ------------------------------------------------- startup (app.py 19-27)
\* Variant: the except FileNotFoundError clause is missing.
Caught_ImportErrorOnly(e) == IsInstance(e, "ImportError")

\* The two except clauses of the module-level try block.
Caught(e) == IsInstance(e, "FileNotFoundError") \/ IsInstance(e, "ImportError")

\* An exception e leaves the try block: a matching except clause binds
\* rag_chain = None and the module goes on to build and serve the app; any
\* other exception propagates out of the module and the process ends.
Raise(e) ==
    IF Caught(e)
    THEN rag_chain' = None /\ startup' = "done"
    ELSE rag_chain' = rag_chain /\ startup' = "crashed"

\* from rag_setup import create_rag_chain
ImportRagSetup ==
    /\ startup = "import"
    /\ IF moduleExists
       THEN startup' = "load" /\ UNCHANGED rag_chain
       ELSE Raise("ModuleNotFoundError")
    /\ UNCHANGED <<env, browser, calls>>

\* PyPDFLoader(document_path).load().  A missing file is reported with
\* FileNotFoundError, the class the except clause of app.py line 22 names for
\* "Document ... not found"; a present file may still fail to parse.
LoadDocument ==
    /\ startup = "load"
    /\ IF docExists
       THEN \/ startup' = "split" /\ UNCHANGED rag_chain
            \/ Raise("PdfReadError")
       ELSE Raise("FileNotFoundError")
    /\ UNCHANGED <<env, browser, calls>>

\* RecursiveCharacterTextSplitter(...).split_documents(documents)
SplitDocuments ==
    /\ startup = "split"
    /\ startup' = "embed"
    /\ UNCHANGED <<rag_chain, env, browser, calls>>

\* OllamaEmbeddings(...); Chroma.from_documents(...); as_retriever()
BuildVectorStore ==
    /\ startup = "embed"
    /\ \/ startup' = "llm" /\ UNCHANGED rag_chain
       \/ Raise("ConnectionError")
    /\ UNCHANGED <<env, browser, calls>>

\* Ollama(model="llama3.1")
ConnectLLM ==
    /\ startup = "llm"
    /\ \/ startup' = "chain" /\ UNCHANGED rag_chain
       \/ Raise("ValidationError")
    /\ UNCHANGED <<env, browser, calls>>

\* RetrievalQA.from_chain_type(...); return qa_chain; rag_chain = ...
BuildChain ==
    /\ startup = "chain"
    /\ \/ rag_chain' = qa_chain /\ startup' = "done"
       \/ Raise("ValidationError")
    /\ UNCHANGED <<env, browser, calls>>

\* ------------------------------------- update_response (app.py 121-140)
DEGRADED == "RAG system not initialized."

\* Variant: the uninitialized path reports nothing.
DegradedOutputs_Silent ==
    [children |-> no_update, data |-> no_update, value |-> ""]

\* The three outputs: rag-response.children, rag-response-store.data,
\* question-input.value.
DegradedOutputs ==
    [children |-> RedP("RAG system not initialized. Check server logs for errors."),
     data |-> DEGRADED, value |-> ""]

\* Variant: the rendered component is stored instead of the text.
ResultOutputs_StoresMarkup(response_text) ==
    [children |-> P(response_text), data |-> P(response_text), value |-> ""]

ResultOutputs(response_text) ==
    [children |-> P(response_text), data |-> response_text, value |-> ""]

ErrorMessage(e) == "An error occurred: " \o e

\* Variant: the except clause swallows the exception.
ErrorOutputs_Swallowed(e) ==
    [children |-> no_update, data |-> no_update, value |-> ""]

ErrorOutputs(e) ==
    [children |-> RedP(ErrorMessage(e)), data |-> ErrorMessage(e), value |-> ""]

\* Variant: an empty question clears the stored response.
EmptyOutputs_ClearsStore ==
    [children |-> no_update, data |-> "", value |-> ""]

EmptyOutputs ==
    [children |-> no_update, data |-> no_update, value |-> ""]

\* Dash writes each output to its component unless it is dash.no_update.
Updated(old, new) == IF new = no_update THEN old ELSE new

SetProps(out) ==
    /\ returned' = out
    /\ rag_response' = Updated(rag_response, out.children)
    /\ response_store' = Updated(response_store, out.data)
    /\ question_input' = Updated(question_input, out.value)

\* Variant: the None check is missing.
NotInitialized_Unchecked == FALSE

\* if rag_chain is None
NotInitialized == rag_chain = None

\* The callback is dispatched with State question-input.value and runs up
\* to its first return or to the blocking rag_chain.invoke.
UpdateResponse(c) ==
    /\ startup = "done"
    /\ cpc[c] = "idle"
    /\ IF NotInitialized
       THEN /\ SetProps(DegradedOutputs)
            /\ lastSubmit' = DEGRADED
            /\ UNCHANGED calls
       ELSE IF Truthy(question_input)
       THEN /\ cpc' = [cpc EXCEPT ![c] = "invoking"]
            /\ cq' = [cq EXCEPT ![c] = question_input]
            /\ UNCHANGED <<creply, question_input, rag_response,
                           response_store, returned, lastSubmit>>
       ELSE /\ SetProps(EmptyOutputs)
            /\ UNCHANGED <<calls, lastSubmit>>
    /\ UNCHANGED <<env, startup, rag_chain, download, n_clicks>>

\* The chain (retrieval, then generation, both calls to the model backend)
\* answers the invoke of call c with a result or an exception.  Nothing in
\* the code makes it do so: neither Ollama object is given a timeout.
BackendReply(c) ==
    /\ cpc[c] = "invoking"
    /\ \E r \in BackendReplies : creply' = [creply EXCEPT ![c] = r]
    /\ cpc' = [cpc EXCEPT ![c] = "replied"]
    /\ UNCHANGED <<env, startup, rag_chain, browser, cq>>

\* Variant: a failed query discards the chain.
UpdateResponseReturn_DropsChain(c) ==
    /\ cpc[c] = "replied"
    /\ IF creply[c].kind = "result"
       THEN /\ SetProps(ResultOutputs(creply[c].val))
            /\ lastSubmit' = creply[c].val
            /\ rag_chain' = rag_chain
       ELSE /\ SetProps(ErrorOutputs(creply[c].val))
            /\ lastSubmit' = ErrorMessage(creply[c].val)
            /\ rag_chain' = None
    /\ cpc' = [cpc EXCEPT ![c] = "idle"]
    /\ cq' = [cq EXCEPT ![c] = None]
    /\ creply' = [creply EXCEPT ![c] = NoReply]
    /\ UNCHANGED <<env, startup, download, n_clicks>>

\* Variant: the chain's response is kept in one slot shared by all calls.
UpdateResponseReturn_SharedReply(c) ==
    /\ cpc[c] = "replied"
    /\ IF creply[1].kind = "result"
       THEN /\ SetProps(ResultOutputs(creply[1].val))
            /\ lastSubmit' = creply[1].val
       ELSE /\ SetProps(ErrorOutputs(creply[1].val))
            /\ lastSubmit' = ErrorMessage(creply[1].val)
    /\ cpc' = [cpc EXCEPT ![c] = "idle"]
    /\ cq' = [cq EXCEPT ![c] = None]
    /\ creply' = [creply EXCEPT ![c] = NoReply]
    /\ UNCHANGED <<env, startup, rag_chain, download, n_clicks>>

\* rag_chain.invoke returned or raised: the try/except of lines 133-139.
UpdateResponseReturn(c) ==
    /\ cpc[c] = "replied"
    /\ IF creply[c].kind = "result"
       THEN /\ SetProps(ResultOutputs(creply[c].val))
            /\ lastSubmit' = creply[c].val
       ELSE /\ SetProps(ErrorOutputs(creply[c].val))
            /\ lastSubmit' = ErrorMessage(creply[c].val)
    /\ cpc' = [cpc EXCEPT ![c] = "idle"]
    /\ cq' = [cq EXCEPT ![c] = None]
    /\ creply' = [creply EXCEPT ![c] = NoReply]
    /\ UNCHANGED <<env, startup, rag_chain, download, n_clicks>>

\* ---------------------------------------- download_pdf (app.py 142-155)
\* create_pdf_report: the story handed to SimpleDocTemplate.build.
create_pdf_report(img, response) ==
    <<"<b>AI-Powered Data Report</b>", "<b>Q1 2025 Regional Revenue</b>",
      img, "<b>LLM Analysis</b>", response>>

send_bytes(content, filename) == [filename |-> filename, content |-> content]

DownloadPdf ==
    /\ startup = "done"
    /\ n_clicks < MaxClicks
    /\ n_clicks' = n_clicks + 1
    /\ IF ~Truthy(response_store)
       THEN download' = download
       ELSE download' = send_bytes(create_pdf_report("<png>", response_store),
                                   "analysis_report.pdf")
    /\ UNCHANGED <<env, startup, rag_chain, question_input, rag_response,
                   response_store, returned, lastSubmit, calls>>

\* ------------------------------------------------------------- the user
TypeQuestion ==
    /\ startup = "done"
    /\ \E q \in Questions : question_input' = q
    /\ UNCHANGED <<env, startup, rag_chain, rag_response, response_store,
                   download, n_clicks, returned, lastSubmit, calls>>

Next ==
    \/ ImportRagSetup
    \/ LoadDocument
    \/ SplitDocuments
    \/ BuildVectorStore
    \/ ConnectLLM
    \/ BuildChain
    \/ \E c \in Calls : UpdateResponse(c)
    \/ \E c \in Calls : BackendReply(c)
    \/ \E c \in Calls : UpdateResponseReturn(c)
    \/ DownloadPdf
    \/ TypeQuestion

Spec == Init /\ [][Next]_vars

\* The interpreter runs the module-level code and a dispatched callback
\* resumes once its invoke has returned or raised; the backend is under no
\* such obligation.
FairSpec ==
    /\ Spec
    /\ WF_vars(ImportRagSetup \/ LoadDocument \/ SplitDocuments
               \/ BuildVectorStore \/ ConnectLLM \/ BuildChain)
    /\ \A c \in Calls : WF_vars(UpdateResponseReturn(c))

\* ================================================================ claims
\* Call c returned from the blocking invoke in this step.
ReturnsFromInvoke(c) == cpc[c] = "replied" /\ cpc'[c] = "idle"
\* Call c ran from dispatch to a return in this step (no invoke).
ReturnsAtOnce(c) == UpdateResponse(c) /\ cpc'[c] = "idle"

C2_StartupEndsReadyOrFailed ==
    startup \in {"done", "crashed"} =>
        startup = "done" /\ rag_chain \in {None, qa_chain}

\* C3: in Ready, a query whose invoke raises returns "An error occurred: <e>"
\* (displayed in red and stored) and leaves rag_chain the chain; and every
\* submit of a non-empty question in Ready, also after failed queries, starts
\* an invoke.
C3_QueryErrorKeepsReady ==
    [][\A c \in Calls :
         /\ (ReturnsFromInvoke(c) /\ creply[c].kind = "raise") =>
              /\ returned'.data = "An error occurred: " \o creply[c].val
              /\ returned'.children =
                    "<p style='color:red'>An error occurred: " \o creply[c].val \o "</p>"
              /\ response_store' = returned'.data
              /\ rag_chain' = qa_chain
         /\ (UpdateResponse(c) /\ rag_chain = qa_chain /\ Truthy(question_input)) =>
              /\ cpc'[c] = "invoking"
              /\ cq'[c] = question_input]_vars

\* The call whose failure is the latest return has been submitted again.
C3_Witness ==
    /\ rag_chain = qa_chain
    /\ returned.data = "An error occurred: EmbeddingServiceUnavailable"
    /\ \A c \in Calls : cpc[c] # "idle"
    /\ \E c \in Calls : cpc[c] = "replied" /\ creply[c].kind = "result"

\* C4 (as claimed): every update_response return carries an answer or an
\* error/degraded message.
C4_AlwaysAMessage ==
    returned # NoReturn =>
        returned.data # no_update /\ returned.children # no_update

\* C4 (amended): a call in Failed returns the degraded message; a call whose
\* invoke came back returns the answer or "An error occurred: <e>"; the only
\* return without a message is the empty or missing question in Ready, which
\* returns no_update for the response and leaves display and store as they were.
C4_MessageUnlessEmptyQuestion ==
    [][\A c \in Calls :
         /\ ReturnsAtOnce(c) =>
              IF rag_chain = None
              THEN returned'.data = "RAG system not initialized."
              ELSE /\ ~Truthy(question_input)
                   /\ returned'.data = no_update
                   /\ returned'.children = no_update
                   /\ response_store' = response_store
                   /\ rag_response' = rag_response
         /\ ReturnsFromInvoke(c) =>
              /\ returned'.data \in
                    Answers \cup {"An error occurred: " \o e : e \in QueryErrors}
              /\ returned'.children # no_update
              /\ response_store' = returned'.data]_vars

C4_Witness ==
    /\ rag_chain = qa_chain
    /\ returned.data = no_update
    /\ response_store = None

\* C5: while rag_chain is None no call is inside, or back from,
\* rag_chain.invoke.
C5_NoInvokeWhenFailed ==
    rag_chain # qa_chain =>
        \A c \in Calls : cpc[c] = "idle" /\ creply[c] = NoReply /\ cq[c] = None

C5_Witness ==
    /\ rag_chain = None
    /\ returned.data = "RAG system not initialized."
    /\ n_clicks = 0

\* C6: once bound, rag_chain never changes (None stays None, the chain stays
\* the chain, it is never unbound again), and the finished startup is never
\* re-entered.
C6_StatePermanent ==
    [][/\ rag_chain # Unbound => rag_chain' = rag_chain
       /\ startup \in {"done", "crashed"} => startup' = startup]_vars

C6_Witness ==
    /\ rag_chain = qa_chain
    /\ returned.data = "An error occurred: EmbeddingServiceUnavailable"
    /\ download # NoDownload
    /\ \A c \in Calls : cpc[c] = "idle"

\* C7 (as claimed): in Ready every call that entered rag_chain.invoke
\* eventually returns, even if the backend never answers.
C7_EveryCallReturns ==
    \A c \in Calls : (cpc[c] = "invoking") ~> (cpc[c] = "idle")

\* C8: under every interleaving, the outputs of a returning call are fixed by
\* its own question, rag_chain and the chain's reply to that call; a step of
\* one call leaves the other calls' question and reply alone; and no step
\* after startup writes rag_chain.
C8_CallsIndependent ==
    [][\A c \in Calls :
         /\ (ReturnsFromInvoke(c) /\ creply[c].kind = "result") =>
              returned' = [children |-> "<p>" \o creply[c].val \o "</p>",
                           data |-> creply[c].val, value |-> ""]
         /\ (ReturnsFromInvoke(c) /\ creply[c].kind # "result") =>
              returned'.data = "An error occurred: " \o creply[c].val
         /\ ReturnsAtOnce(c) =>
              returned'.data = IF rag_chain = None
                               THEN "RAG system not initialized."
                               ELSE no_update
         /\ cpc'[c] # cpc[c] =>
              \A d \in Calls \ {c} :
                  cpc'[d] = cpc[d] /\ cq'[d] = cq[d] /\ creply'[d] = creply[d]
         /\ startup = "done" => rag_chain' = rag_chain]_vars

C8_Witness ==
    \E c, d \in Calls :
        /\ c # d
        /\ cpc[c] = "replied" /\ cpc[d] = "replied"
        /\ cq[c] # cq[d]
        /\ creply[c] # creply[d]
        /\ returned.data \in Answers \ {""}

\* C9 (as claimed): whenever a return sets the displayed response, the stored
\* string is the displayed text.
C9_StoredIsDisplayed ==
    returned.children \notin {None, no_update} =>
        returned.children \in {P(returned.data), RedP(returned.data)}

\* C9 (amended): in Ready (answer or query error) the stored string is the
\* displayed text; in Failed the stored string is "RAG system not
\* initialized." while the display adds " Check server logs for errors.".
C9_StoredIsDisplayedWhenReady ==
    returned.children \notin {None, no_update} =>
        /\ rag_response = returned.children
        /\ response_store = returned.data
        /\ IF rag_chain = None
           THEN /\ returned.data = "RAG system not initialized."
                /\ returned.children =
                     RedP(returned.data \o " Check server logs for errors.")
           ELSE returned.children \in {P(returned.data), RedP(returned.data)}

C9_Witness ==
    /\ rag_response =
         "<p style='color:red'>RAG system not initialized. Check server logs for errors.</p>"
    /\ response_store = "RAG system not initialized."

\* C10: a download click yields a report exactly when the latest submit that
\* produced a response stored a non-empty one, and the report carries that
\* text; otherwise download-pdf is not updated.  A submit with an empty
\* question in Ready starts no invoke, leaves display and store unchanged and
\* sets question-input to "".
C10_ReportCarriesLatestResponse ==
    [][/\ n_clicks' # n_clicks =>
            IF Truthy(lastSubmit)
            THEN /\ download'.filename = "analysis_report.pdf"
                 /\ Len(download'.content) = 5
                 /\ download'.content[5] = lastSubmit
            ELSE download' = download
       /\ \A c \in Calls :
            (UpdateResponse(c) /\ rag_chain = qa_chain /\ ~Truthy(question_input)) =>
                /\ calls' = calls
                /\ rag_response' = rag_response
                /\ response_store' = response_store
                /\ question_input' = ""]_vars

C10_Witness ==
    /\ rag_chain = qa_chain
    /\ returned.data = no_update
    /\ download # NoDownload
    /\ n_clicks = MaxClicks
    /\ lastSubmit = ""
====
